---- MODULE Spec2Model ----
(***************************************************************************)
(* Model of watermark_folder.py: main() walks SOURCE_FOLDER, watermarks    *)
(* every PDF, copies every other file, and writes to OUTPUT_FOLDER.        *)
(*                                                                         *)
(* The file system is one function fs from absolute paths to entries.  A   *)
(* path is a sequence of names, a name is a sequence of one-character      *)
(* strings, so that Path.suffix and str.lower are computed, not assumed.   *)
(***************************************************************************)
EXTENDS Integers, Sequences, FiniteSets

\* fs: the file system; pc, exc: where main() is and the exception pending;
\* all_files, pdf_files, other_files, stamp_page: main()'s locals; idx: the
\* position of the running for loop; stdout: the lines printed.
\* History: fs0 is fs when main() started, written maps every path a
\* completed write went to to the data written, failed_at is the source file
\* whose processing raised (<<>> when none did).
VARIABLES fs, fs0, pc, exc, all_files, pdf_files, other_files, idx,
          stamp_page, stdout, written, failed_at

vars == <<fs, fs0, pc, exc, all_files, pdf_files, other_files, idx,
          stamp_page, stdout, written, failed_at>>

(* ------------------------------ bounds -------------------------------- *)
\* at most this many entries below the source root
MaxEntries == 2
\* at most this many entries already under the output root when the run starts
MaxStale == 1

(* ------------------------------ names --------------------------------- *)
n_docs == <<"d", "o", "c", "s">>
\* stands for "docs - watermarked", a sibling of docs
n_out == <<"d", "o", "c", "s", "-", "w">>
n_tmp == <<"t", "m", "p">>
n_a_pdf == <<"a", ".", "p", "d", "f">>
n_c_PDF == <<"c", ".", "P", "D", "F">>
n_b_jpg == <<"b", ".", "j", "p", "g">>
n_dotpdf == <<".", "p", "d", "f">>
n_README == <<"R", "E", "A", "D", "M", "E">>
n_sub == <<"s", "u", "b">>
n_old == <<"o", "l", "d">>

SOURCE_FOLDER == <<n_docs>>
OUTPUT_FOLDER == <<n_out>>
\* the name NamedTemporaryFile(suffix=".pdf", delete=False) hands out
TmpPath == <<n_tmp>>

\* relative paths an entry of the source tree may have
RelUniverse ==
  { <<n_c_PDF>>, <<n_b_jpg>>, <<n_dotpdf>>, <<n_sub>>,
    <<n_sub, n_a_pdf>>, <<n_sub, n_README>> }

\* relative paths of what an earlier run may have left under the output root
StaleUniverse == { <<n_c_PDF>>, <<n_b_jpg>>, <<n_sub>>, <<n_old>> }

(* --------------------------- path helpers ------------------------------ *)
Range(s) == { s[i] : i \in 1..Len(s) }

parent(p) == SubSeq(p, 1, Len(p) - 1)

name(p) == p[Len(p)]

IsUnder(p, root) ==
  /\ Len(p) > Len(root)
  /\ SubSeq(p, 1, Len(root)) = root

relative_to(p, root) == SubSeq(p, Len(root) + 1, Len(p))

Join(root, rel) == root \o rel

\* str.rfind("."), 1-based, 0 when there is no dot
rfind_dot(n) ==
  LET dots == { i \in 1..Len(n) : n[i] = "." }
  IN IF dots = {} THEN 0 ELSE CHOOSE i \in dots : \A j \in dots : j <= i

\* PurePath.suffix: the last dot and what follows, unless the dot is the
\* first or the last character of the name
suffix(p) ==
  LET n == name(p)
      i == rfind_dot(n)
  IN IF 1 < i /\ i < Len(n) THEN SubSeq(n, i, Len(n)) ELSE <<>>

lower_char(c) ==
  CASE c = "P" -> "p"
    [] c = "D" -> "d"
    [] c = "F" -> "f"
    [] c = "R" -> "r"
    [] c = "E" -> "e"
    [] c = "A" -> "a"
    [] c = "M" -> "m"
    [] OTHER -> c

lower(s) == [i \in 1..Len(s) |-> lower_char(s[i])]

(* ------------------------- documents and pages ------------------------- *)
\* A4 in millimetres (reportlab: A4 = (210*mm, 297*mm))
A4_W == 210
A4_H == 297

\* a scale factor is a fraction <<numerator, denominator>>
Identity == << <<1, 1>>, <<1, 1>> >>

Layer(src, ctm) == [src |-> src, ctm |-> ctm]

Page(w, h, src) == [mediabox |-> <<w, h>>, contents |-> <<Layer(src, Identity)>>]

\* file contents: a PDF document (its pages) or other bytes
PdfDoc(pages) == [fmt |-> "pdf", pages |-> pages, bytes |-> <<>>]
RawBytes(b) == [fmt |-> "raw", pages |-> <<>>, bytes |-> b]
NoData == [fmt |-> "none", pages |-> <<>>, bytes |-> <<>>]

Pdf0 == PdfDoc(<<>>)
Pdf2 == PdfDoc(<<Page(210, 297, "p1"), Page(420, 297, "p2")>>)
Raw1 == RawBytes(<<7, 9>>)
OldData == RawBytes(<<0>>)
PartialData == RawBytes(<<>>)

Contents == {Pdf0, Pdf2, Raw1}

(* --------------------------- file system ------------------------------- *)
\* kind: "file", "dir" or "symlink"; target: what a symlink resolves to
\* ("file", "dir" or "none" for a broken link); data: the bytes a read returns
Entry(kind, target, data) == [kind |-> kind, target |-> target, data |-> data]

DirEntry == Entry("dir", "dir", NoData)
FileEntry(d) == Entry("file", "file", d)

SourceEntries ==
  {DirEntry, Entry("symlink", "dir", NoData), Entry("symlink", "none", NoData)}
    \cup { FileEntry(d) : d \in Contents }
    \cup {Entry("symlink", "file", Pdf2)}

exists(f, p) == p \in DOMAIN f

\* Path.is_dir() and Path.is_file() follow symbolic links
is_dir(f, p) == exists(f, p) /\ f[p].target = "dir"

is_file(f, p) == exists(f, p) /\ f[p].target = "file"

Merge(f, g) ==
  [p \in DOMAIN f \cup DOMAIN g |-> IF p \in DOMAIN g THEN g[p] ELSE f[p]]

Ancestors(p) == { SubSeq(p, 1, k) : k \in 1..(Len(p) - 1) }

\* Path.mkdir(parents=True, exist_ok=True) succeeds unless something that is
\* not a directory is in the way
can_mkdir(f, d) == \A a \in Ancestors(d) \cup {d} : ~exists(f, a) \/ is_dir(f, a)

mkdir(f, d) ==
  LET new == { a \in Ancestors(d) \cup {d} : ~exists(f, a) }
  IN Merge(f, [a \in new |-> DirEntry])

\* open(p, "wb") succeeds when the parent is a directory and p is no directory
can_open_wb(f, p) == is_dir(f, parent(p)) /\ ~is_dir(f, p)

write_file(f, p, d) == Merge(f, [q \in {p} |-> FileEntry(d)])

unlink(f, p) == [q \in DOMAIN f \ {p} |-> f[q]]

\* Path.rglob("*"): every path below root, not descending into symlinks
rglob(f, root) ==
  { p \in DOMAIN f : IsUnder(p, root)
      /\ \A a \in Ancestors(p) : Len(a) >= Len(root) => f[a].kind = "dir" }

(* ------------------------ the functions of the script ------------------ *)
\* the page create_watermark_pdf draws: A4, the text rotated about the centre
StampPage ==
  [mediabox |-> <<A4_W, A4_H>>, contents |-> <<Layer("WATERMARK_TEXT", Identity)>>]

create_watermark_pdf(f, output_path) == write_file(f, output_path, PdfDoc(<<StampPage>>))

\* PdfReader(path): the document's pages; raises when the bytes are no PDF
can_read_pdf(f, p) == is_file(f, p) /\ f[p].data.fmt = "pdf"

PdfReader(f, p) == f[p].data.pages

scale_stamp_to_page(stamp, content_page) ==
  LET sw == stamp.mediabox[1]
      sh == stamp.mediabox[2]
      cw == content_page.mediabox[1]
      ch == content_page.mediabox[2]
  IN IF sw <= 0 \/ sh <= 0 THEN Identity ELSE << <<cw, sw>>, <<ch, sh>> >>

\* page.merge_transformed_page(stamp, ctm, over=True): the stamp's content,
\* transformed, is drawn after (on top of) the page's own content
merge_transformed_page(page, stamp, ctm) ==
  [page EXCEPT !.contents =
     @ \o [i \in 1..Len(stamp.contents) |-> Layer(stamp.contents[i].src, ctm)]]

\* mutant: the loop starts at the second page
watermarked_pages_skip_first(pages, stamp) ==
  [i \in 1..Len(pages) |->
     IF i = 1 THEN pages[i]
     ELSE merge_transformed_page(pages[i], stamp, scale_stamp_to_page(stamp, pages[i]))]

\* the loop of watermark_pdf over reader.pages, in document order
watermarked_pages(pages, stamp) ==
  [i \in 1..Len(pages) |->
     merge_transformed_page(pages[i], stamp, scale_stamp_to_page(stamp, pages[i]))]

\* watermark_pdf when nothing fails
watermark_pdf(f, input_path, output_path, stamp) ==
  write_file(mkdir(f, parent(output_path)), output_path,
             PdfDoc(watermarked_pages(PdfReader(f, input_path), stamp)))

\* shutil.copy2(src, dst): into dst when dst is a directory, else onto dst
copy2_target(f, src, dst) == IF is_dir(f, dst) THEN dst \o <<name(src)>> ELSE dst

\* mutant: the file is moved, not copied
copy2_move(f, src, dst) == unlink(write_file(f, copy2_target(f, src, dst), f[src].data), src)

copy2(f, src, dst) == write_file(f, copy2_target(f, src, dst), f[src].data)

\* a write to out can succeed
can_write(f, out) ==
  /\ can_mkdir(f, parent(out))
  /\ can_open_wb(mkdir(f, parent(out)), out)

can_copy(f, src, out) ==
  /\ can_mkdir(f, parent(out))
  /\ can_open_wb(mkdir(f, parent(out)), copy2_target(f, src, out))

\* what a failed write leaves behind: nothing, the parent directories, or
\* the directories and a truncated file
write_failures(f, out) ==
  {f} \cup
  (IF can_mkdir(f, parent(out))
     THEN {mkdir(f, parent(out))} \cup
          (IF can_open_wb(mkdir(f, parent(out)), out)
             THEN {write_file(mkdir(f, parent(out)), out, PartialData)}
             ELSE {})
     ELSE {})

\* mutant: the extension is compared case-sensitively
is_pdf_case_sensitive(p) == suffix(p) = <<".", "p", "d", "f">>

\* p.suffix.lower() == ".pdf"
is_pdf(p) == lower(suffix(p)) = <<".", "p", "d", "f">>

\* mutant: the output path keeps the file name only
out_path_flat(p) == Join(OUTPUT_FOLDER, <<name(p)>>)

\* OUTPUT_FOLDER / path.relative_to(SOURCE_FOLDER)
out_path_of(p) == Join(OUTPUT_FOLDER, relative_to(p, SOURCE_FOLDER))

\* mutant: the source folder is not checked
source_folder_unchecked(f) == TRUE

\* if not SOURCE_FOLDER.is_dir()
source_folder_ok(f) == is_dir(f, SOURCE_FOLDER)

\* mutant: symbolic links are not followed (lstat)
enumerated_nofollow(f) == { p \in rglob(f, SOURCE_FOLDER) : exists(f, p) /\ f[p].kind = "file" }

\* [p for p in SOURCE_FOLDER.rglob("*") if p.is_file()]
enumerated(f) == { p \in rglob(f, SOURCE_FOLDER) : is_file(f, p) }

\* mutant: the empty listing is not noticed
no_files_never(all) == FALSE

\* if not all_files
no_files(all) == all = <<>>

\* the orders a directory traversal may list a set of paths in
Orders(S) ==
  { s \in [1..Cardinality(S) -> S] : \A i, j \in 1..Cardinality(S) : s[i] = s[j] => i = j }

\* mutant: the exception is caught per file and the loop goes on
raise_caught(e, here) == [pc |-> here, exc |-> "none"]

\* an exception leaves the try block for the finally clause
raise(e, here) == [pc |-> "finally", exc |-> e]

\* mutant: no finally clause
finally_nothing(f) == f

\* finally: tmp_path.unlink(missing_ok=True)
finally_clause(f) == unlink(f, TmpPath)

Line(tag, rel, n, m) == [tag |-> tag, rel |-> rel, pdfs |-> n, others |-> m]

(* ------------------------------ initial states ------------------------- *)
SourceTrees ==
  { t \in UNION { [S -> SourceEntries] :
                    S \in { T \in SUBSET RelUniverse : Cardinality(T) <= MaxEntries } } :
      \A p \in DOMAIN t : Len(p) > 1 => (parent(p) \in DOMAIN t /\ t[parent(p)].kind = "dir") }

Rooted(root, t) ==
  [p \in {root} \cup { Join(root, r) : r \in DOMAIN t } |->
     IF p = root THEN DirEntry ELSE t[relative_to(p, root)]]

EmptyFs == [p \in {} |-> DirEntry]

\* the source folder: a tree, missing, or a regular file of that name
SourceFs ==
  { Rooted(SOURCE_FOLDER, t) : t \in SourceTrees }
    \cup {EmptyFs, [p \in {SOURCE_FOLDER} |-> FileEntry(Raw1)]}

\* what an earlier run left at a path under the output folder
StaleEntry(r) == IF r = <<n_b_jpg>> THEN DirEntry ELSE FileEntry(OldData)

\* the output folder: missing, or holding what earlier runs left there
OutputFs ==
  {EmptyFs} \cup
  { Rooted(OUTPUT_FOLDER, [r \in T |-> StaleEntry(r)]) :
      T \in { U \in SUBSET StaleUniverse : U # {} /\ Cardinality(U) <= MaxStale } }

Init ==
  /\ fs \in { Merge(s, o) : s \in SourceFs, o \in OutputFs }
  /\ fs0 = fs
  /\ pc = "validate"
  /\ exc = "none"
  /\ all_files = <<>>
  /\ pdf_files = <<>>
  /\ other_files = <<>>
  /\ idx = 1
  /\ stamp_page = <<>>
  /\ stdout = <<>>
  /\ written = EmptyFs
  /\ failed_at = <<>>

(* ------------------------------- main() -------------------------------- *)
\* lines 68-69: the source folder is no directory: SystemExit
ValidateFail ==
  /\ pc = "validate"
  /\ ~source_folder_ok(fs)
  /\ pc' = "raised"
  /\ exc' = "SystemExit"
  /\ UNCHANGED <<fs, fs0, all_files, pdf_files, other_files, idx, stamp_page,
                 stdout, written, failed_at>>

\* lines 68-77: the source folder is a directory; list and partition its
\* files; return when there are none
Enumerate ==
  /\ pc = "validate"
  /\ source_folder_ok(fs)
  /\ \E all \in Orders(enumerated(fs)) :
       LET pdfs == SelectSeq(all, is_pdf)
           others == SelectSeq(all, LAMBDA p : p \notin Range(pdfs))
       IN /\ all_files' = all
          /\ pdf_files' = pdfs
          /\ other_files' = others
          /\ IF no_files(all)
               THEN /\ stdout' = Append(stdout, Line("NoFiles", <<>>, 0, 0))
                    /\ pc' = "returned"
               ELSE /\ stdout' = stdout
                    /\ pc' = "mktemp"
  /\ UNCHANGED <<fs, fs0, exc, idx, stamp_page, written, failed_at>>

\* lines 79-80: the temporary file is created, empty
MkTemp ==
  /\ pc = "mktemp"
  /\ fs' = write_file(fs, TmpPath, PartialData)
  /\ pc' = "stamp"
  /\ UNCHANGED <<fs0, exc, all_files, pdf_files, other_files, idx, stamp_page,
                 stdout, written, failed_at>>

\* line 79: the temporary file cannot be created; nothing to clean up
MkTempFail ==
  /\ pc = "mktemp"
  /\ pc' = "raised"
  /\ exc' = "OSError"
  /\ UNCHANGED <<fs, fs0, all_files, pdf_files, other_files, idx, stamp_page,
                 stdout, written, failed_at>>

\* lines 82-83: the stamp is drawn into the temporary file and read back
CreateStamp ==
  /\ pc = "stamp"
  /\ fs' = create_watermark_pdf(fs, TmpPath)
  /\ stamp_page' = PdfReader(fs', TmpPath)[1]
  /\ idx' = 1
  /\ pc' = "pdf_loop"
  /\ UNCHANGED <<fs0, exc, all_files, pdf_files, other_files, stdout, written, failed_at>>

\* line 82: drawing the stamp fails
CreateStampFail ==
  /\ pc = "stamp"
  /\ pc' = raise("StampError", pc).pc
  /\ exc' = raise("StampError", pc).exc
  /\ UNCHANGED <<fs, fs0, all_files, pdf_files, other_files, idx, stamp_page,
                 stdout, written, failed_at>>

\* lines 85-89: one PDF is watermarked
WatermarkNext ==
  /\ pc = "pdf_loop"
  /\ idx <= Len(pdf_files)
  /\ LET pdf_path == pdf_files[idx]
         out_path == out_path_of(pdf_path)
     IN /\ can_read_pdf(fs, pdf_path)
        /\ can_write(fs, out_path)
        /\ fs' = watermark_pdf(fs, pdf_path, out_path, stamp_page)
        /\ stdout' = Append(stdout,
                            Line("Watermarking", relative_to(pdf_path, SOURCE_FOLDER), 0, 0))
        /\ written' = Merge(written, [q \in {out_path} |-> fs'[out_path]])
  /\ idx' = idx + 1
  /\ UNCHANGED <<fs0, pc, exc, all_files, pdf_files, other_files, stamp_page,
                 failed_at>>

\* line 53: the input is no PDF
WatermarkReadError ==
  /\ pc = "pdf_loop"
  /\ idx <= Len(pdf_files)
  /\ ~can_read_pdf(fs, pdf_files[idx])
  /\ stdout' = Append(stdout,
                      Line("Watermarking", relative_to(pdf_files[idx], SOURCE_FOLDER), 0, 0))
  /\ pc' = raise("ReadError", pc).pc
  /\ exc' = raise("ReadError", pc).exc
  /\ failed_at' = pdf_files[idx]
  /\ UNCHANGED <<fs, fs0, all_files, pdf_files, other_files, idx, stamp_page, written>>

\* lines 62-64: the output cannot be created or written
WatermarkWriteError ==
  /\ pc = "pdf_loop"
  /\ idx <= Len(pdf_files)
  /\ can_read_pdf(fs, pdf_files[idx])
  /\ fs' \in write_failures(fs, out_path_of(pdf_files[idx]))
  /\ stdout' = Append(stdout,
                      Line("Watermarking", relative_to(pdf_files[idx], SOURCE_FOLDER), 0, 0))
  /\ pc' = raise("WriteError", pc).pc
  /\ exc' = raise("WriteError", pc).exc
  /\ failed_at' = pdf_files[idx]
  /\ UNCHANGED <<fs0, all_files, pdf_files, other_files, idx, stamp_page, written>>

\* line 85: the PDF loop ends
PdfLoopDone ==
  /\ pc = "pdf_loop"
  /\ idx > Len(pdf_files)
  /\ pc' = "copy_loop"
  /\ idx' = 1
  /\ UNCHANGED <<fs, fs0, exc, all_files, pdf_files, other_files, stamp_page,
                 stdout, written, failed_at>>

\* lines 91-96: one other file is copied
CopyNext ==
  /\ pc = "copy_loop"
  /\ idx <= Len(other_files)
  /\ LET other_path == other_files[idx]
         out_path == out_path_of(other_path)
     IN /\ can_copy(fs, other_path, out_path)
        /\ fs' = copy2(mkdir(fs, parent(out_path)), other_path, out_path)
        /\ stdout' = Append(stdout,
                            Line("Copied", relative_to(other_path, SOURCE_FOLDER), 0, 0))
        /\ written' = Merge(written, [q \in {copy2_target(fs, other_path, out_path)} |-> fs'[q]])
  /\ idx' = idx + 1
  /\ UNCHANGED <<fs0, pc, exc, all_files, pdf_files, other_files, stamp_page,
                 failed_at>>

\* lines 94-95: the copy fails
CopyError ==
  /\ pc = "copy_loop"
  /\ idx <= Len(other_files)
  /\ fs' \in write_failures(fs, copy2_target(fs, other_files[idx], out_path_of(other_files[idx])))
  /\ pc' = raise("WriteError", pc).pc
  /\ exc' = raise("WriteError", pc).exc
  /\ failed_at' = other_files[idx]
  /\ UNCHANGED <<fs0, all_files, pdf_files, other_files, idx, stamp_page, stdout,
                 written>>

\* line 98: both loops are over; the summary is printed
Summary ==
  /\ pc = "copy_loop"
  /\ idx > Len(other_files)
  /\ stdout' = Append(stdout, Line("Done", <<>>, Len(pdf_files), Len(other_files)))
  /\ pc' = "finally"
  /\ UNCHANGED <<fs, fs0, exc, all_files, pdf_files, other_files, idx, stamp_page,
                 written, failed_at>>

\* lines 99-100: the temporary file is removed, then main() returns or the
\* pending exception goes on
Finally ==
  /\ pc = "finally"
  /\ fs' = finally_clause(fs)
  /\ pc' = IF exc = "none" THEN "returned" ELSE "raised"
  /\ UNCHANGED <<fs0, exc, all_files, pdf_files, other_files, idx, stamp_page,
                 stdout, written, failed_at>>

Next ==
  \/ ValidateFail
  \/ Enumerate
  \/ MkTemp
  \/ MkTempFail
  \/ CreateStamp
  \/ CreateStampFail
  \/ WatermarkNext
  \/ WatermarkReadError
  \/ WatermarkWriteError
  \/ PdfLoopDone
  \/ CopyNext
  \/ CopyError
  \/ Summary
  \/ Finally

Spec == Init /\ [][Next]_vars

(* ------------------------------- claims -------------------------------- *)
Terminated == pc \in {"returned", "raised"}

SourcePart(f) ==
  [p \in { q \in DOMAIN f : q = SOURCE_FOLDER \/ IsUnder(q, SOURCE_FOLDER) } |-> f[p]]

OutputPaths(f) == { q \in DOMAIN f : IsUnder(q, OUTPUT_FOLDER) }

\* relative paths of the files under the output folder
OutputFileRels(f) ==
  { relative_to(q, OUTPUT_FOLDER) : q \in { r \in OutputPaths(f) : f[r].kind = "file" } }

\* relative paths of the files main() listed
ListedRels == { relative_to(p, SOURCE_FOLDER) : p \in Range(all_files) }

Mirror(p) == Join(OUTPUT_FOLDER, relative_to(p, SOURCE_FOLDER))

\* the files in the order main() processes them
ProcessingOrder == pdf_files \o other_files

HasLine(tag, rel) == \E i \in 1..Len(stdout) : stdout[i].tag = tag /\ stdout[i].rel = rel

\* C1 as stated: after any run that returns normally, the files under the
\* output folder are exactly the listed source files, at the same relative
\* paths.
C1_Original ==
  pc = "returned" => OutputFileRels(fs) = ListedRels

\* C1, amended: after a run that returns normally and that started with
\* nothing under the output folder, the files under the output folder are
\* exactly the listed source files at the same relative paths, one output
\* file per source file.
C1_MirroredPathSet ==
  (pc = "returned" /\ OutputPaths(fs0) = {}) =>
     /\ OutputFileRels(fs) = ListedRels
     /\ Cardinality(OutputFileRels(fs)) = Len(all_files)
     /\ \A p \in Range(all_files) : is_file(fs, Mirror(p)) /\ fs[Mirror(p)].kind = "file"

C1_Witness ==
  /\ pc = "returned"
  /\ OutputPaths(fs0) = {}
  /\ Len(all_files) = 2
  /\ \E p \in Range(all_files) : Len(relative_to(p, SOURCE_FOLDER)) = 1

\* C2: in every state of every run, the source folder and everything under
\* it is what it was when the run started.
C2_SourceUnchanged == SourcePart(fs) = SourcePart(fs0)

C2_Witness ==
  /\ Terminated
  /\ Len(pdf_files) >= 1
  /\ Len(other_files) >= 1
  /\ DOMAIN written # {}

\* C3: the output of every watermarked PDF has as many pages as its input,
\* in the same order, each page being the input page with the stamp drawn
\* last, that is on top.
C3_EveryPageStamped ==
  \A p \in Range(pdf_files) :
    Mirror(p) \in DOMAIN written =>
      LET inp == fs0[p].data.pages
          out == fs[Mirror(p)].data.pages
      IN /\ fs[Mirror(p)].data.fmt = "pdf"
         /\ Len(out) = Len(inp)
         /\ \A k \in 1..Len(inp) :
              /\ out[k].mediabox = inp[k].mediabox
              /\ Len(out[k].contents) = Len(inp[k].contents) + 1
              /\ SubSeq(out[k].contents, 1, Len(inp[k].contents)) = inp[k].contents
              /\ out[k].contents[Len(out[k].contents)].src = "WATERMARK_TEXT"

C3_Witness ==
  /\ pc = "returned"
  /\ \E p \in Range(pdf_files) :
       /\ Mirror(p) \in DOMAIN written
       /\ Len(fs0[p].data.pages) = 2

\* C4: after a run that returns normally, every listed file that is no PDF
\* has, at the same relative path under the output folder, a file with the
\* same content.
C4_CopyLossless ==
  pc = "returned" =>
    \A p \in Range(other_files) :
      /\ is_file(fs, Mirror(p))
      /\ fs[Mirror(p)].data = fs0[p].data

\* C5: when main() has ended, by returning or by an exception, the
\* temporary stamp file does not exist.
C5_StampFileRemoved == Terminated => ~exists(fs, TmpPath)

C5_Witness ==
  /\ pc = "raised"
  /\ exc = "WriteError"
  /\ stamp_page # <<>>
  /\ DOMAIN written # {}

\* C6: when the source folder is missing or no directory, main() does
\* nothing but raise SystemExit: the file system is untouched, nothing is
\* listed, drawn, watermarked, copied or printed.
C6_MissingSourceAborts ==
  ~is_dir(fs0, SOURCE_FOLDER) =>
     /\ pc \in {"validate", "raised"}
     /\ pc = "raised" => exc = "SystemExit"
     /\ fs = fs0
     /\ all_files = <<>>
     /\ stamp_page = <<>>
     /\ stdout = <<>>
     /\ DOMAIN written = {}

C6_Witness ==
  /\ pc = "raised"
  /\ exc = "SystemExit"
  /\ exists(fs0, SOURCE_FOLDER)

\* C7: when nothing under the source folder is a file, main() prints that
\* no files were found and returns, and nothing else happens: the file
\* system is untouched (no output folder, no temporary file), no stamp is
\* drawn, nothing is watermarked or copied.
C7_NoFilesNoEffect ==
  (/\ is_dir(fs0, SOURCE_FOLDER)
   /\ \A p \in DOMAIN fs0 : IsUnder(p, SOURCE_FOLDER) => fs0[p].target # "file") =>
     /\ pc \in {"validate", "returned"}
     /\ pc = "returned" => stdout = <<Line("NoFiles", <<>>, 0, 0)>>
     /\ pc = "validate" => stdout = <<>>
     /\ exc = "none"
     /\ fs = fs0
     /\ stamp_page = <<>>
     /\ DOMAIN written = {}

C7_Witness ==
  /\ pc = "returned"
  /\ all_files = <<>>
  /\ is_dir(fs0, Join(SOURCE_FOLDER, <<n_sub>>))
  /\ ~exists(fs, OUTPUT_FOLDER)

\* the listed names whose extension, compared without case, is ".pdf"
PdfNames == {n_a_pdf, n_c_PDF}

\* C8: every listed file is in exactly one of pdf_files and other_files, in
\* pdf_files exactly when its extension without case is ".pdf"; after a run
\* that returns normally every PDF was announced as watermarked and no
\* other file was, every other file was reported copied and no PDF was, and
\* the two counts of the summary add up to the number of listed files.
C8_ExactlyOnePath ==
  pc # "validate" =>
    /\ \A p \in Range(all_files) :
         /\ (p \in Range(pdf_files)) <=> (name(p) \in PdfNames)
         /\ (p \in Range(other_files)) <=> (name(p) \notin PdfNames)
    /\ Range(pdf_files) \cup Range(other_files) = Range(all_files)
    /\ Len(pdf_files) + Len(other_files) = Len(all_files)
    /\ (pc = "returned" /\ all_files # <<>>) =>
         /\ \A p \in Range(all_files) :
              /\ HasLine("Watermarking", relative_to(p, SOURCE_FOLDER))
                   <=> (name(p) \in PdfNames)
              /\ HasLine("Copied", relative_to(p, SOURCE_FOLDER))
                   <=> (name(p) \notin PdfNames)
         /\ Len(stdout) = Len(all_files) + 1
         /\ stdout[Len(stdout)].tag = "Done"
         /\ stdout[Len(stdout)].pdfs + stdout[Len(stdout)].others = Len(all_files)

C8_Witness ==
  /\ pc = "returned"
  /\ Join(SOURCE_FOLDER, <<n_c_PDF>>) \in Range(pdf_files)
  /\ \E p \in Range(other_files) : suffix(p) = <<>>

\* C9: once the processing of a file has raised, the run is aborted: the
\* exception is pending or has left main(), every file processed before
\* the failing one has its output as it was written, neither the failing
\* file nor any file after it has a completed output, and the summary line
\* is not printed.
C9_ErrorAbortsRun ==
  failed_at # <<>> =>
    /\ pc \in {"finally", "raised"}
    /\ exc \in {"ReadError", "WriteError"}
    /\ \A q \in DOMAIN written : exists(fs, q) /\ fs[q] = written[q]
    /\ \E k \in 1..Len(ProcessingOrder) :
         /\ ProcessingOrder[k] = failed_at
         /\ Cardinality(DOMAIN written) = k - 1
         /\ \A j \in k..Len(ProcessingOrder) :
              /\ Mirror(ProcessingOrder[j]) \notin DOMAIN written
              /\ ~HasLine("Copied", relative_to(ProcessingOrder[j], SOURCE_FOLDER))
              /\ j > k => ~HasLine("Watermarking", relative_to(ProcessingOrder[j], SOURCE_FOLDER))
    /\ \A i \in 1..Len(stdout) : stdout[i].tag # "Done"

C9_Witness ==
  /\ pc = "raised"
  /\ exc = "ReadError"
  /\ failed_at = ProcessingOrder[1]
  /\ Len(other_files) >= 1
  /\ ~exists(fs, Mirror(other_files[1]))

\* C10 as stated: only regular files are listed; a symbolic link, also one
\* to a regular file, is never listed, so never watermarked, copied or
\* counted.
C10_Original ==
  pc = "returned" =>
    \A p \in DOMAIN fs0 :
      (IsUnder(p, SOURCE_FOLDER) /\ fs0[p].kind = "symlink") =>
        /\ p \notin Range(all_files)
        /\ Mirror(p) \notin DOMAIN written
        /\ ~HasLine("Watermarking", relative_to(p, SOURCE_FOLDER))
        /\ ~HasLine("Copied", relative_to(p, SOURCE_FOLDER))

\* C10, amended: the files listed are the regular files under the source
\* folder and the symbolic links there whose target is a regular file;
\* directories, symbolic links to directories and broken symbolic links
\* are not listed.
C10_ListsFilesAndLinksToFiles ==
  (pc # "validate" /\ is_dir(fs0, SOURCE_FOLDER)) =>
    Range(all_files) =
      { p \in DOMAIN fs0 :
          /\ IsUnder(p, SOURCE_FOLDER)
          /\ \/ fs0[p].kind = "file"
             \/ fs0[p].kind = "symlink" /\ fs0[p].target = "file" }

C10_Witness ==
  /\ pc = "returned"
  /\ \E p \in Range(all_files) :
       /\ fs0[p].kind = "symlink"
       /\ Mirror(p) \in DOMAIN written
  /\ \E p \in DOMAIN fs0 : IsUnder(p, SOURCE_FOLDER) /\ fs0[p].target # "file"

====
